---- MODULE Spec2Model ----
(***************************************************************************)
(* Model of backend/watchdog.py: the BotGuardian supervisor loop.          *)
(*                                                                         *)
(* The guardian is a single thread; pc is its position in run() and in the *)
(* start_bot / stop_bot bodies it calls (ret and stopRet are the return    *)
(* addresses).  The worker tree (the shell Popen launches with shell=True  *)
(* and the processes that shell forks), the health endpoint, the operator  *)
(* pressing Ctrl-C and the operating system are the environment.           *)
(* Time is in seconds.                                                     *)
(***************************************************************************)
EXTENDS Integers, FiniteSets, Sequences, TLC

VARIABLES
    process,            \* self.process: "None" or "Popen"
    failed_checks,      \* self.failed_checks
    last_success_time,  \* self.last_success_time
    is_running,         \* self.is_running
    pc,                 \* position of the guardian thread
    ret,                \* where the running start_bot returns to
    stopRet,            \* where the running stop_bot returns to
    now,                \* time.time()
    platform,           \* sys.platform: "win32" or "posix"
    shell,              \* OS state of the process behind self.process
    desc,               \* the held shell's descendants are running
    orphans,            \* worker trees still running whose handle was dropped
    resp,               \* answer the last requests.get of this tick received
    probeRet,           \* value the last check_health of this tick returned
    lastSpawn,          \* outcome of the latest Popen attempt
    tickPoll,           \* what line 124 observed in this tick
    tickStarts,         \* start_bot calls issued in this tick
    consec,             \* failed probes in a row since last success / start_bot
    staleSince,         \* since when every probe was a 200 without usable flag
    interrupts,         \* KeyboardInterrupts delivered so far
    errors,             \* exceptions raised into the loop body so far
    logged              \* log records written by the latest step

vars == <<process, failed_checks, last_success_time, is_running, pc, ret,
          stopRet, now, platform, shell, desc, orphans, resp, probeRet,
          lastSpawn, tickPoll, tickStarts, consec, staleSince, interrupts,
          errors, logged>>

----------------------------------------------------------------------------
(* Program constants *)

CHECK_INTERVAL == 60
MAX_TIMEOUTS == 3
STALE_DATA_THRESHOLD == 600
INIT_WAIT == 60
DIED_WAIT == 30
RESTART_WAIT == 60
ERROR_WAIT == 10
STOP_WAIT_TIMEOUT == 5
PROBE_TIMEOUT == 10

(* Bounds of the model *)

MaxTime == 240
MaxStaleTime == 660
MaxOrphans == 1
MaxInterrupts == 1
MaxErrors == 1

----------------------------------------------------------------------------
(* The health endpoint's possible answers to one GET *)

Bodies == {"run_true", "run_false", "no_field", "truthy", "falsy",
           "not_json", "json_list"}

Responses ==
    {[kind |-> "refused", status |-> 0, body |-> "none"],
     [kind |-> "timeout", status |-> 0, body |-> "none"],
     [kind |-> "http", status |-> 500, body |-> "none"],
     [kind |-> "http", status |-> 204, body |-> "none"],
     [kind |-> "http", status |-> 201, body |-> "run_true"]}
    \cup {[kind |-> "http", status |-> 200, body |-> b] : b \in Bodies}

NoResp == [kind |-> "none", status |-> 0, body |-> "none"]

Ok200 == {r \in Responses : r.kind = "http" /\ r.status = 200}

(* response.json() raises on a body that is not JSON; data.get raises on a *)
(* JSON value that is not an object.                                       *)
BodyRaises(b) == b \in {"not_json", "json_list"}

(* data.get("is_running", True), then its truth value *)
IsRunningFlag(b) == b \in {"run_true", "no_field", "truthy"}

(* The request raised inside the try of check_health *)
RequestRaises(r) == r.kind \in {"refused", "timeout"}

(* Line 94 *)
StatusOk(r) == r.status = 200

(* Mutant of HealthPass: a worker reporting is_running false counts as failed *)
HealthPassStrict(r) ==
    ~RequestRaises(r) /\ StatusOk(r) /\ ~BodyRaises(r.body) /\ IsRunningFlag(r.body)

(* Mutant of HealthPass: a body without a boolean is_running counts as failed *)
HealthPassNeedsFlag(r) ==
    ~RequestRaises(r) /\ StatusOk(r) /\ r.body \in {"run_true", "run_false"}

(* Lines 94-105: the branch that returns True *)
HealthPass(r) == ~RequestRaises(r) /\ StatusOk(r) /\ ~BodyRaises(r.body)

(* Seconds one requests.get(API_URL, timeout=10) takes *)
ProbeDuration(r) == IF r.kind = "timeout" THEN PROBE_TIMEOUT ELSE 0

(* Log records of one check_health call *)
HealthLogs(r, fc) ==
    IF HealthPass(r)
      THEN IF IsRunningFlag(r.body) THEN {"pass_active"} ELSE {"pass_idle"}
      ELSE IF ~RequestRaises(r) /\ ~StatusOk(r) THEN {"fail_status"}
      ELSE IF fc > 1 THEN {"fail_error"} ELSE {}

(* Mutant of CountAfter: a passing probe leaves the counter as it was *)
CountAfterSticky(r, fc) == IF HealthPass(r) THEN fc ELSE fc + 1

(* failed_checks after one check_health call *)
CountAfter(r, fc) == IF HealthPass(r) THEN 0 ELSE fc + 1

(* Mutant of SuccessTimeAfter: a failed probe moves last_success_time too *)
SuccessTimeAfterAlways(r, lst, t) == t

(* last_success_time after one check_health call that ends at time t *)
SuccessTimeAfter(r, lst, t) == IF HealthPass(r) THEN t ELSE lst

(* Mutant of HealthEscapes: the except catches request errors only, so an *)
(* error of response.json() or data.get leaves check_health               *)
HealthEscapesParse(r) == r.kind = "http" /\ StatusOk(r) /\ BodyRaises(r.body)

(* Lines 92, 108: an exception of the try leaves check_health; the except *)
(* clause names Exception, so none does                                   *)
HealthEscapes(r) == FALSE

(* check_health: the result and the fields it leaves *)
check_health(r, fc, lst, t) ==
    [ret |-> HealthPass(r),
     failed_checks |-> CountAfter(r, fc),
     last_success_time |-> SuccessTimeAfter(r, lst, t),
     logs |-> HealthLogs(r, fc)]

----------------------------------------------------------------------------
(* Conditions of run() *)

(* Popen.poll() is not None: the process behind the handle has exited *)
PollExited(sh) == sh \in {"exited", "reaped"}

(* Mutant of DiedRestart: the dead-process restart waits for the threshold *)
DiedRestartGated(p, exited) ==
    p # "None" /\ exited /\ failed_checks >= MAX_TIMEOUTS

(* Mutant of DiedRestart: a held handle is restarted without asking poll() *)
DiedRestartEager(p, exited) == p # "None"

(* Line 124: a handle is held and poll() reports it exited *)
DiedRestart(p, exited) == p # "None" /\ exited

(* Mutant of EmergencyRestart: the comparison is strict *)
EmergencyRestartLate(healthy, fc) == ~healthy /\ fc > MAX_TIMEOUTS

(* Lines 130-131 *)
EmergencyRestart(healthy, fc) == ~healthy /\ fc >= MAX_TIMEOUTS

(* Mutant of ErrorTarget: the exception leaves run() *)
ErrorTargetFatal == "crashed"

(* Where an exception of class Exception raised in the loop body lands *)
ErrorTarget == "error_handler"

----------------------------------------------------------------------------
(* Positions *)

StartPcs == {"start_entry", "start_spawn"}
StopPcs == {"stop_entry", "stop_terminate", "stop_wait", "stop_kill",
            "stop_clear"}
LoopBodyPcs == {"poll", "died_sleep", "check", "emerg_sleep", "interval_sleep"}
Terminal == {"done", "crashed"}

(* The guardian is inside the try of lines 122-136 *)
InLoopTry ==
    \/ pc \in LoopBodyPcs
    \/ pc \in StartPcs /\ ret # "grace"
    \/ pc \in StopPcs /\ stopRet = "start_spawn" /\ ret # "grace"

(* The guardian is inside the outer try of stop_bot (lines 75-81) *)
InStopTry == pc \in {"stop_terminate", "stop_wait"}

(* Worker trees with at least one process still running *)
HeldLive == shell = "running" \/ desc
LiveTrees == orphans + (IF HeldLive THEN 1 ELSE 0)

TimeLeft(d, limit) == now + d <= limit

----------------------------------------------------------------------------
(* State after BotGuardian() and before run() *)

Init ==
    /\ process = "None"
    /\ failed_checks = 0
    /\ last_success_time = 0
    /\ is_running = TRUE
    /\ pc = "run_begin"
    /\ ret = "none"
    /\ stopRet = "none"
    /\ now = 0
    /\ platform \in {"win32", "posix"}
    /\ shell = "none"
    /\ desc = FALSE
    /\ orphans = 0
    /\ resp = NoResp
    /\ probeRet = "none"
    /\ lastSpawn = "none"
    /\ tickPoll = "none"
    /\ tickStarts = 0
    /\ consec = 0
    /\ staleSince = 0
    /\ interrupts = 0
    /\ errors = 0
    /\ logged = {}

----------------------------------------------------------------------------
(* start_bot *)

(* Mutant of CountAfterSpawn: a successful spawn leaves the counter as it was *)
CountAfterSpawnKeep(ok, fc) == fc

(* failed_checks after the try of start_bot *)
CountAfterSpawn(ok, fc) == IF ok THEN 0 ELSE fc

(* last_success_time after the try of start_bot, entered at time t *)
SuccessTimeAfterSpawn(ok, lst, t) == IF ok THEN t ELSE lst

(* Lines 48-49 *)
start_bot_entry ==
    /\ pc = "start_entry"
    /\ consec' = 0
    /\ IF process # "None"
         THEN pc' = "stop_entry" /\ stopRet' = "start_spawn"
         ELSE pc' = "start_spawn" /\ UNCHANGED stopRet
    /\ logged' = {}
    /\ UNCHANGED <<process, failed_checks, last_success_time, is_running, ret,
                   now, platform, shell, desc, orphans, resp, probeRet,
                   lastSpawn, tickPoll, tickStarts, staleSince, interrupts,
                   errors>>

(* Lines 51-69: the spawn succeeds, or open / Popen raises *)
start_bot_spawn ==
    /\ pc = "start_spawn"
    /\ \E ok \in BOOLEAN :
        /\ failed_checks' = CountAfterSpawn(ok, failed_checks)
        /\ last_success_time' = SuccessTimeAfterSpawn(ok, last_success_time, now)
        /\ IF ok
             THEN /\ process' = "Popen"
                  /\ shell' = "running"
                  /\ desc' = TRUE
                  /\ lastSpawn' = "ok"
                  /\ staleSince' = now
                  /\ logged' = {"starting", "spawned"}
             ELSE /\ lastSpawn' = "failed"
                  /\ logged' = {"starting", "start_failed"}
                  /\ UNCHANGED <<process, shell, desc, staleSince>>
    /\ pc' = ret
    /\ UNCHANGED <<is_running, ret, stopRet, now, platform, orphans, resp,
                   probeRet, tickPoll, tickStarts, consec, interrupts, errors>>

----------------------------------------------------------------------------
(* stop_bot *)

(* Lines 73-74 *)
stop_bot_entry ==
    /\ pc = "stop_entry"
    /\ IF process = "None"
         THEN pc' = stopRet /\ logged' = {}
         ELSE pc' = "stop_terminate" /\ logged' = {"stopping"}
    /\ UNCHANGED <<process, failed_checks, last_success_time, is_running, ret,
                   stopRet, now, platform, shell, desc, orphans, resp,
                   probeRet, lastSpawn, tickPoll, tickStarts, consec,
                   staleSince, interrupts, errors>>

(* Lines 77-80: taskkill /F /T /PID on win32, SIGTERM to the one pid elsewhere *)
stop_bot_terminate ==
    /\ pc = "stop_terminate"
    /\ \/ /\ platform = "win32"
          /\ \/ /\ shell = "running"        \* taskkill ends the whole tree
                /\ shell' = "exited" /\ desc' = FALSE
                /\ pc' = "stop_wait"
             \/ /\ pc' = "stop_wait"        \* taskkill ends nothing, exit code dropped
                /\ UNCHANGED <<shell, desc>>
             \/ /\ pc' = "stop_kill"        \* subprocess.run raises
                /\ UNCHANGED <<shell, desc>>
       \/ /\ platform = "posix"
          /\ \/ /\ shell = "running"        \* the shell dies of SIGTERM
                /\ shell' = "exited"
                /\ pc' = "stop_wait"
                /\ UNCHANGED desc
             \/ /\ shell \in {"running", "exited"}  \* signal sent, shell not ended by it
                /\ pc' = "stop_wait"
                /\ UNCHANGED <<shell, desc>>
             \/ /\ shell = "reaped"         \* os.kill raises: no such process
                /\ pc' = "stop_kill"
                /\ UNCHANGED <<shell, desc>>
    /\ logged' = {}
    /\ UNCHANGED <<process, failed_checks, last_success_time, is_running, ret,
                   stopRet, now, platform, orphans, resp, probeRet, lastSpawn,
                   tickPoll, tickStarts, consec, staleSince, interrupts,
                   errors>>

(* Mutant of AfterWait: a timed-out wait is not escalated *)
AfterWaitNoKill(sh) == "stop_clear"

(* Lines 81-84: where wait(timeout=5) leaves stop_bot: TimeoutExpired on a *)
(* process still running lands in the except and its kill()                *)
AfterWait(sh) == IF sh = "running" THEN "stop_kill" ELSE "stop_clear"

(* Line 81: wait(timeout=5) returns, or raises TimeoutExpired *)
stop_bot_wait(limit) ==
    /\ pc = "stop_wait"
    /\ pc' = AfterWait(shell)
    /\ IF shell = "running"
         THEN /\ TimeLeft(STOP_WAIT_TIMEOUT, limit)
              /\ now' = now + STOP_WAIT_TIMEOUT
              /\ UNCHANGED shell
         ELSE /\ shell' = "reaped"
              /\ UNCHANGED now
    /\ logged' = {}
    /\ UNCHANGED <<process, failed_checks, last_success_time, is_running, ret,
                   stopRet, platform, desc, orphans, resp, probeRet, lastSpawn,
                   tickPoll, tickStarts, consec, staleSince, interrupts,
                   errors>>

(* Lines 83-86: kill() of the one process, any error swallowed *)
stop_bot_kill ==
    /\ pc = "stop_kill"
    /\ \/ /\ shell = "running"
          /\ shell' = "exited"
       \/ /\ shell = "running"              \* kill() raises
          /\ UNCHANGED shell
       \/ /\ shell # "running"              \* kill() polls and does nothing
          /\ shell' = "reaped"
    /\ pc' = "stop_clear"
    /\ logged' = {}
    /\ UNCHANGED <<process, failed_checks, last_success_time, is_running, ret,
                   stopRet, now, platform, desc, orphans, resp, probeRet,
                   lastSpawn, tickPoll, tickStarts, consec, staleSince,
                   interrupts, errors>>

(* Lines 87-88: the handle is dropped, whatever still runs behind it *)
stop_bot_clear ==
    /\ pc = "stop_clear"
    /\ LiveTrees <= MaxOrphans
    /\ process' = "None"
    /\ orphans' = LiveTrees
    /\ shell' = "none"
    /\ desc' = FALSE
    /\ pc' = stopRet
    /\ logged' = {"terminated"}
    /\ UNCHANGED <<failed_checks, last_success_time, is_running, ret, stopRet,
                   now, platform, resp, probeRet, lastSpawn, tickPoll,
                   tickStarts, consec, staleSince, interrupts, errors>>

----------------------------------------------------------------------------
(* run *)

(* The history of the current tick, cleared when an iteration begins *)
NewTick ==
    /\ tickPoll' = "none"
    /\ tickStarts' = 0
    /\ resp' = NoResp
    /\ probeRet' = "none"

(* Since when every probe has answered 200 without a usable boolean flag *)
StaleSinceAfter(r, t) ==
    IF r.kind = "http" /\ r.status = 200 /\ r.body \in {"no_field", "truthy", "falsy"}
      THEN staleSince ELSE t

(* Lines 117-118 *)
run_begin ==
    /\ pc = "run_begin"
    /\ pc' = "start_entry"
    /\ ret' = "grace"
    /\ tickStarts' = tickStarts + 1
    /\ logged' = {"watchdog_started"}
    /\ UNCHANGED <<process, failed_checks, last_success_time, is_running,
                   stopRet, now, platform, shell, desc, orphans, resp,
                   probeRet, lastSpawn, tickPoll, consec, staleSince,
                   interrupts, errors>>

(* Line 119 *)
run_grace(limit) ==
    /\ pc = "grace"
    /\ TimeLeft(INIT_WAIT, limit)
    /\ now' = now + INIT_WAIT
    /\ pc' = "while"
    /\ logged' = {}
    /\ UNCHANGED <<process, failed_checks, last_success_time, is_running, ret,
                   stopRet, platform, shell, desc, orphans, resp, probeRet,
                   lastSpawn, tickPoll, tickStarts, consec, staleSince,
                   interrupts, errors>>

(* Line 121 *)
run_while ==
    /\ pc = "while"
    /\ IF is_running
         THEN pc' = "poll" /\ NewTick
         ELSE pc' = "done" /\ UNCHANGED <<tickPoll, tickStarts, resp, probeRet>>
    /\ logged' = {}
    /\ UNCHANGED <<process, failed_checks, last_success_time, is_running, ret,
                   stopRet, now, platform, shell, desc, orphans, lastSpawn,
                   consec, staleSince, interrupts, errors>>

(* Lines 124-126: the liveness check and, on a dead process, the call of start_bot *)
run_poll ==
    /\ pc = "poll"
    /\ tickPoll' = IF process = "None" THEN "nohandle"
                   ELSE IF PollExited(shell) THEN "dead" ELSE "alive"
    /\ shell' = IF process # "None" /\ PollExited(shell) THEN "reaped" ELSE shell
    /\ IF DiedRestart(process, PollExited(shell))
         THEN /\ pc' = "start_entry"
              /\ ret' = "died_sleep"
              /\ tickStarts' = tickStarts + 1
              /\ logged' = {"died"}
         ELSE /\ pc' = "check"
              /\ logged' = {}
              /\ UNCHANGED <<ret, tickStarts>>
    /\ UNCHANGED <<process, failed_checks, last_success_time, is_running,
                   stopRet, now, platform, desc, orphans, resp, probeRet,
                   lastSpawn, consec, staleSince, interrupts, errors>>

(* Line 124: poll() itself raises (the OS refuses the query on the handle) *)
run_poll_raises ==
    /\ pc = "poll"
    /\ process # "None"
    /\ errors < MaxErrors
    /\ errors' = errors + 1
    /\ pc' = ErrorTarget
    /\ logged' = {}
    /\ UNCHANGED <<process, failed_checks, last_success_time, is_running, ret,
                   stopRet, now, platform, shell, desc, orphans, resp,
                   probeRet, lastSpawn, tickPoll, tickStarts, consec,
                   staleSince, interrupts>>

(* Line 127 *)
run_died_sleep(limit) ==
    /\ pc = "died_sleep"
    /\ TimeLeft(DIED_WAIT, limit)
    /\ now' = now + DIED_WAIT
    /\ pc' = "check"
    /\ logged' = {}
    /\ UNCHANGED <<process, failed_checks, last_success_time, is_running, ret,
                   stopRet, platform, shell, desc, orphans, resp, probeRet,
                   lastSpawn, tickPoll, tickStarts, consec, staleSince,
                   interrupts, errors>>

(* Lines 130-133: one check_health call on answer r and the threshold test *)
run_check(limit, answers) ==
    /\ pc = "check"
    /\ \E r \in answers :
        /\ TimeLeft(ProbeDuration(r), limit)
        /\ LET t == now + ProbeDuration(r)
               h == check_health(r, failed_checks, last_success_time, t)
           IN IF HealthEscapes(r)
                THEN /\ now' = t
                     /\ resp' = r
                     /\ probeRet' = "raised"
                     /\ pc' = ErrorTarget
                     /\ logged' = {}
                     /\ UNCHANGED <<failed_checks, last_success_time, consec,
                                    staleSince, ret, tickStarts>>
                ELSE /\ now' = t
                     /\ failed_checks' = h.failed_checks
                     /\ last_success_time' = h.last_success_time
                     /\ resp' = r
                     /\ probeRet' = IF h.ret THEN "True" ELSE "False"
                     /\ consec' = IF h.ret THEN 0 ELSE consec + 1
                     /\ staleSince' = StaleSinceAfter(r, t)
                     /\ IF EmergencyRestart(h.ret, h.failed_checks)
                          THEN /\ pc' = "start_entry"
                               /\ ret' = "emerg_sleep"
                               /\ tickStarts' = tickStarts + 1
                               /\ logged' = h.logs \cup {"unresponsive"}
                          ELSE /\ pc' = "interval_sleep"
                               /\ logged' = h.logs
                               /\ UNCHANGED <<ret, tickStarts>>
    /\ UNCHANGED <<process, is_running, stopRet, platform, shell, desc,
                   orphans, lastSpawn, tickPoll, interrupts, errors>>

(* Line 134 *)
run_emerg_sleep(limit) ==
    /\ pc = "emerg_sleep"
    /\ TimeLeft(RESTART_WAIT, limit)
    /\ now' = now + RESTART_WAIT
    /\ pc' = "interval_sleep"
    /\ logged' = {}
    /\ UNCHANGED <<process, failed_checks, last_success_time, is_running, ret,
                   stopRet, platform, shell, desc, orphans, resp, probeRet,
                   lastSpawn, tickPoll, tickStarts, consec, staleSince,
                   interrupts, errors>>

(* Line 136 *)
run_interval_sleep(limit) ==
    /\ pc = "interval_sleep"
    /\ TimeLeft(CHECK_INTERVAL, limit)
    /\ now' = now + CHECK_INTERVAL
    /\ pc' = "while"
    /\ logged' = {}
    /\ UNCHANGED <<process, failed_checks, last_success_time, is_running, ret,
                   stopRet, platform, shell, desc, orphans, resp, probeRet,
                   lastSpawn, tickPoll, tickStarts, consec, staleSince,
                   interrupts, errors>>

(* Lines 137-140 *)
run_interrupt_handler ==
    /\ pc = "interrupt_handler"
    /\ is_running' = FALSE
    /\ pc' = "stop_entry"
    /\ stopRet' = "while"
    /\ logged' = {"shutting_down"}
    /\ UNCHANGED <<process, failed_checks, last_success_time, ret, now,
                   platform, shell, desc, orphans, resp, probeRet, lastSpawn,
                   tickPoll, tickStarts, consec, staleSince, interrupts,
                   errors>>

(* Lines 141-143 *)
run_error_handler(limit) ==
    /\ pc = "error_handler"
    /\ TimeLeft(ERROR_WAIT, limit)
    /\ now' = now + ERROR_WAIT
    /\ pc' = "while"
    /\ logged' = {"unexpected_error"}
    /\ UNCHANGED <<process, failed_checks, last_success_time, is_running, ret,
                   stopRet, platform, shell, desc, orphans, resp, probeRet,
                   lastSpawn, tickPoll, tickStarts, consec, staleSince,
                   interrupts, errors>>

----------------------------------------------------------------------------
(* The environment *)

(* Where a KeyboardInterrupt raised at the current position lands: the bare *)
(* excepts of stop_bot (lines 82, 85) catch it, then the except of line 137 *)
(* when the guardian is inside the loop's try; anywhere else it leaves run. *)
InterruptTarget ==
    IF InStopTry THEN "stop_kill"
    ELSE IF pc = "stop_kill" THEN "stop_clear"
    ELSE IF InLoopTry THEN "interrupt_handler"
    ELSE "crashed"

(* Ctrl-C / SIGINT reaches the guardian *)
KeyboardInterrupt ==
    /\ pc \notin Terminal
    /\ interrupts < MaxInterrupts
    /\ interrupts' = interrupts + 1
    /\ pc' = InterruptTarget
    /\ logged' = {}
    /\ UNCHANGED <<process, failed_checks, last_success_time, is_running, ret,
                   stopRet, now, platform, shell, desc, orphans, resp,
                   probeRet, lastSpawn, tickPoll, tickStarts, consec,
                   staleSince, errors>>

(* The shell behind the handle exits by itself *)
ShellExit ==
    /\ shell = "running"
    /\ shell' = "exited"
    /\ logged' = {}
    /\ UNCHANGED <<process, failed_checks, last_success_time, is_running, pc,
                   ret, stopRet, now, platform, desc, orphans, resp, probeRet,
                   lastSpawn, tickPoll, tickStarts, consec, staleSince,
                   interrupts, errors>>

(* The processes the held shell forked exit by themselves *)
DescExit ==
    /\ desc
    /\ desc' = FALSE
    /\ logged' = {}
    /\ UNCHANGED <<process, failed_checks, last_success_time, is_running, pc,
                   ret, stopRet, now, platform, shell, orphans, resp,
                   probeRet, lastSpawn, tickPoll, tickStarts, consec,
                   staleSince, interrupts, errors>>

(* A worker tree left behind exits by itself *)
OrphanExit ==
    /\ orphans > 0
    /\ orphans' = orphans - 1
    /\ logged' = {}
    /\ UNCHANGED <<process, failed_checks, last_success_time, is_running, pc,
                   ret, stopRet, now, platform, shell, desc, resp, probeRet,
                   lastSpawn, tickPoll, tickStarts, consec, staleSince,
                   interrupts, errors>>

----------------------------------------------------------------------------
Next ==
    \/ run_begin
    \/ start_bot_entry
    \/ start_bot_spawn
    \/ stop_bot_entry
    \/ stop_bot_terminate
    \/ stop_bot_wait(MaxTime)
    \/ stop_bot_kill
    \/ stop_bot_clear
    \/ run_grace(MaxTime)
    \/ run_while
    \/ run_poll
    \/ run_poll_raises
    \/ run_died_sleep(MaxTime)
    \/ run_check(MaxTime, Responses)
    \/ run_emerg_sleep(MaxTime)
    \/ run_interval_sleep(MaxTime)
    \/ run_interrupt_handler
    \/ run_error_handler(MaxTime)
    \/ KeyboardInterrupt
    \/ ShellExit
    \/ DescExit
    \/ OrphanExit

Spec == Init /\ [][Next]_vars

(* The quiet environment: the worker never exits, nobody interrupts, and   *)
(* the endpoint answers every GET with a 200 whose body parses to an object *)
QuietAnswers == {r \in Ok200 : ~BodyRaises(r.body)}

NextStale ==
    \/ run_begin
    \/ start_bot_entry
    \/ start_bot_spawn
    \/ run_grace(MaxStaleTime)
    \/ run_while
    \/ run_poll
    \/ run_check(MaxStaleTime, QuietAnswers)
    \/ run_interval_sleep(MaxStaleTime)

SpecStale == Init /\ [][NextStale]_vars

----------------------------------------------------------------------------
(* Properties *)

IdleAnswer == [kind |-> "http", status |-> 200, body |-> "run_false"]

(* The guardian is shutting down after an interrupt: in the handler of     *)
(* line 137, in the stop_bot it calls, or back at line 121 about to leave. *)
ShuttingDown ==
    \/ pc = "interrupt_handler"
    \/ pc \in StopPcs /\ stopRet = "while"
    \/ pc = "while" /\ ~is_running

(* C1: at most one worker tree (the launched shell or anything it forked)  *)
(* is running at any time; a new child is alive only once the previous one *)
(* has fully exited.                                                       *)
C1_AtMostOneLive == LiveTrees <= 1

(* C2: in every tick in which line 124 observed the held process exited,   *)
(* start_bot has been issued in that tick, whatever failed_checks is.      *)
C2_DeadRestarts == tickPoll = "dead" => tickStarts >= 1

C2_Witness ==
    /\ tickPoll = "dead"
    /\ failed_checks = 1
    /\ pc = "start_entry"
    /\ ret = "died_sleep"

(* C3: with a process handle held, a probe issues the threshold restart    *)
(* exactly when the failed probes in a row since the last success or       *)
(* restart reach MAX_TIMEOUTS with it, and that count never exceeds it.    *)
C3_ThresholdExact ==
    [][(pc = "check" /\ process # "None" /\ pc' \in {"start_entry", "interval_sleep"})
         => /\ (pc' = "start_entry") <=> (consec' = MAX_TIMEOUTS)
            /\ consec' <= MAX_TIMEOUTS]_vars

C3_Witness ==
    /\ process # "None"
    /\ consec = MAX_TIMEOUTS
    /\ pc = "start_entry"
    /\ ret = "emerg_sleep"
    /\ resp.kind = "refused"

C5_SuccessResets ==
    [][(pc = "check" /\ probeRet' = "True")
         => failed_checks' = 0 /\ last_success_time' = now']_vars

C5_Witness ==
    /\ probeRet = "True"
    /\ pc = "interval_sleep"
    /\ failed_checks = 0
    /\ last_success_time = now
    /\ now >= 2 * CHECK_INTERVAL

C7_StaleRestart ==
    (pc = "interval_sleep" /\ tickPoll = "alive"
        /\ now - staleSince >= STALE_DATA_THRESHOLD)
        => tickStarts > 0

(* C8: once a KeyboardInterrupt was delivered the guardian is shutting     *)
(* down or has left the loop with is_running False, and it never leaves    *)
(* run() with the child behind its handle still running.                   *)
C8_InterruptShutsDown ==
    interrupts > 0 =>
        /\ pc \notin Terminal => ShuttingDown
        /\ pc \in Terminal => shell # "running"
        /\ pc = "done" => ~is_running

(* C9: only an interrupt ends the loop: without one run() never returns or *)
(* crashes and line 121 finds is_running True; the handler of line 141     *)
(* logs, sleeps ERROR_WAIT and goes back to line 121.                      *)
C9_LoopSurvivesErrors ==
    /\ [](interrupts = 0 => pc \notin Terminal /\ is_running)
    /\ [][(pc = "error_handler" /\ pc' # pc /\ interrupts' = interrupts)
            => /\ pc' = "while"
               /\ now' = now + ERROR_WAIT
               /\ "unexpected_error" \in logged']_vars
    /\ [][(errors' # errors) => pc' = "error_handler"]_vars

C9_Witness ==
    /\ errors > 0
    /\ interrupts = 0
    /\ pc = "check"

(* C10: at the end of every tick that began after a failed spawn, a new    *)
(* start attempt has been made in that tick.                               *)
C10_RetryNextTick ==
    (pc = "interval_sleep" /\ lastSpawn = "failed") => tickStarts >= 1

(* The status is of the 2xx class *)
Is2xx(r) == r.kind = "http" /\ r.status >= 200 /\ r.status <= 299

(* The body parses to a JSON object *)
JsonObject(b) == b \in {"run_true", "run_false", "no_field", "truthy", "falsy"}

(* C11: after a probe, an answer with a 2xx status and a JSON object body  *)
(* was counted as alive (True returned, counter 0), and an answer that was *)
(* non-2xx, a timeout or a connection failure was counted as a failure.    *)
C11_StatusClass ==
    resp # NoResp =>
        /\ (Is2xx(resp) /\ JsonObject(resp.body))
               => probeRet = "True" /\ failed_checks = 0
        /\ ~Is2xx(resp) => probeRet = "False"

(* The body carries no usable boolean liveness flag: the field is absent,  *)
(* not a boolean, or the body does not parse to a JSON object.             *)
DriftedBody(b) == b \in {"no_field", "truthy", "falsy", "not_json", "json_list"}

C13_ProbeNeverRaises ==
    [][(pc = "check" /\ resp' # NoResp)
         => /\ probeRet' \in {"True", "False"}
            /\ pc' \in {"start_entry", "interval_sleep"}
            /\ probeRet' = "True" => failed_checks' = 0
            /\ probeRet' = "False" => failed_checks' = failed_checks + 1]_vars

C13_Witness ==
    /\ resp = [kind |-> "http", status |-> 200, body |-> "json_list"]
    /\ probeRet = "False"
    /\ failed_checks = 2
    /\ pc = "interval_sleep"

(* C14 as claimed: kill() is reached only from a wait that timed out on a  *)
(* process still running.                                                  *)
C14_KillOnlyAfterTimeout ==
    [][(pc' = "stop_kill" /\ pc # "stop_kill")
         => /\ pc = "stop_wait"
            /\ shell = "running"
            /\ now' = now + STOP_WAIT_TIMEOUT]_vars

(* C14 as amended: the wait follows the termination request; a wait on a   *)
(* process still running always ends in kill(); kill() is reached from the *)
(* request or the wait only (their except), and a wait that returns goes   *)
(* on without it.                                                          *)
C14_KillOnExcept ==
    [][/\ (pc' = "stop_wait" /\ pc # "stop_wait") => pc = "stop_terminate"
       /\ (pc = "stop_wait" /\ shell = "running" /\ pc' # pc)
            => pc' = "stop_kill"
       /\ (pc' = "stop_kill" /\ pc # "stop_kill")
            => pc \in {"stop_terminate", "stop_wait"}
       /\ (pc = "stop_wait" /\ shell # "running" /\ pc' # pc
             /\ interrupts' = interrupts)
            => pc' = "stop_clear"]_vars

C14_Witness ==
    /\ pc = "stop_kill"
    /\ shell = "running"
    /\ now % (2 * STOP_WAIT_TIMEOUT) = STOP_WAIT_TIMEOUT

(* C15: once stop_bot has returned nothing the dropped handle launched is  *)
(* still running: no worker tree is ever left behind a dropped handle.     *)
C15_NoOrphans == orphans = 0

(* C16: every transition writes a log record in its step: each start, each *)
(* check_health call that returns False, each restart issued by the loop   *)
(* and the shutdown.                                                       *)
C16_EveryTransitionLogged ==
    [][/\ (pc = "start_spawn" /\ pc' # pc /\ interrupts' = interrupts)
            => "starting" \in logged'
       /\ (pc = "check" /\ probeRet' = "False")
            => logged' \cap {"fail_status", "fail_error"} # {}
       /\ (tickStarts' > tickStarts /\ pc # "run_begin")
            => logged' \cap {"died", "unresponsive"} # {}
       /\ (is_running /\ ~is_running')
            => "shutting_down" \in logged']_vars

(* C17: in a tick in which line 124 found the process dead, a probe of     *)
(* that tick changes neither failed_checks nor last_success_time and       *)
(* issues no further start_bot.                                            *)
C17_DeadTickSkipsProbe ==
    [][(tickPoll = "dead" /\ pc = "check" /\ resp' # NoResp)
         => UNCHANGED <<failed_checks, last_success_time, tickStarts>>]_vars

(* C18: no probe is issued less than the one grace period (the wait after  *)
(* the initial start) after a start.  A successful spawn sets              *)
(* last_success_time and only a later probe moves it, so at line 130 the   *)
(* time since the latest start is at most now - last_success_time.         *)
C18_FullGraceBeforeProbe ==
    (pc = "check" /\ lastSpawn = "ok")
        => now - last_success_time >= INIT_WAIT

(* C19: failed_checks is never negative; a probe that returns False adds   *)
(* exactly 1 and leaves last_success_time; failed_checks changes only in a *)
(* probe or a spawn, goes to 0 only in a probe that returns True or a      *)
(* successful spawn, and only these move last_success_time, to the current *)
(* time; stop_bot and the liveness check of line 124 change neither.       *)
C19_WindowFrame ==
    [][/\ failed_checks' >= 0
       /\ (pc = "check" /\ probeRet' = "False")
            => /\ failed_checks' = failed_checks + 1
               /\ last_success_time' = last_success_time
       /\ failed_checks' # failed_checks => pc \in {"check", "start_spawn"}
       /\ (failed_checks' # failed_checks /\ failed_checks' = 0)
            => \/ pc = "check" /\ probeRet' = "True"
               \/ pc = "start_spawn" /\ lastSpawn' = "ok"
       /\ last_success_time' # last_success_time
            => /\ \/ pc = "check" /\ probeRet' = "True"
                  \/ pc = "start_spawn" /\ lastSpawn' = "ok"
               /\ last_success_time' = now'
               /\ last_success_time' > last_success_time
       /\ pc \in StopPcs \cup {"poll"}
            => UNCHANGED <<failed_checks, last_success_time>>]_vars

C19_Witness ==
    /\ probeRet = "False"
    /\ failed_checks = 2
    /\ last_success_time < now
    /\ pc = "interval_sleep"

(* C20: the loop calls start_bot only in a step in which line 124 saw the  *)
(* held process exited, or in which check_health returned False with       *)
(* failed_checks at MAX_TIMEOUTS or more; in a tick that polled the        *)
(* process alive and whose probe passed, no start_bot is issued and the    *)
(* guardian is in neither start_bot nor stop_bot (shutdown aside).         *)
C20_NoSpuriousRestart ==
    /\ [][(pc' = "start_entry" /\ pc # "start_entry" /\ pc # "run_begin")
            => \/ pc = "poll" /\ process # "None" /\ PollExited(shell)
               \/ /\ pc = "check"
                  /\ probeRet' = "False"
                  /\ failed_checks' >= MAX_TIMEOUTS]_vars
    /\ [][(tickStarts' > tickStarts) => pc' = "start_entry"]_vars
    /\ []((tickPoll = "alive" /\ probeRet = "True" /\ interrupts = 0)
            => tickStarts = 0 /\ pc \notin StartPcs \cup StopPcs)

C20_Witness ==
    /\ pc = "start_entry"
    /\ ret = "emerg_sleep"
    /\ tickPoll = "alive"
    /\ probeRet = "False"
    /\ failed_checks >= MAX_TIMEOUTS

====
